---- MODULE Spec2Model ----
(***************************************************************************)
(* TCA8418 keypad controller driver (tca8418.c) as a state machine.        *)
(* The driver issues one blocking I2C register transaction at a time; the  *)
(* chip is the environment: it owns the configuration registers, the      *)
(* interrupt-status register, the key-lock/event-counter register and the *)
(* key-event FIFO, and it may push a key event between any two bus         *)
(* transactions of the driver.                                             *)
(***************************************************************************)
EXTENDS Naturals, Integers, Sequences, FiniteSets, TLC

\* ---------------------------------------------------------------- bounds
\* number of keys being typed: key 1 pressed, key 1 released, key 2 pressed, ...
\* and round again
NumKeys == 2
\* number of chip-side changes (a key event, a lock change, another interrupt)
\* that can fall within one call of the driver: the keypad scan is slow
\* compared with a bus transaction
MaxChipSteps == 2

\* ------------------------------------------------------- register map
CFG == 1
INT_STAT == 2
KEY_LCK_EC == 3
KEY_EVENT_A == 4
GPIO_INT_EN1 == 26
GPIO_INT_EN2 == 27
GPIO_INT_EN3 == 28
KP_GPIO1 == 29
KP_GPIO2 == 30

\* capacity of the caller's buffer, uint8_t keyEvents[10]
BufCap == 10
\* depth of the chip's key-event FIFO
FifoDepth == 10

\* HAL_StatusTypeDef
HAL_OK == "HAL_OK"
HAL_ERROR == "HAL_ERROR"
HAL_BUSY == "HAL_BUSY"
HAL_TIMEOUT == "HAL_TIMEOUT"
HalStatus == {HAL_OK, HAL_ERROR, HAL_BUSY, HAL_TIMEOUT}

\* value of ret while a call is running or before the first call
NoRet == "none"

\* registers the driver configures; they hold 0 after a chip reset
CfgRegs == {CFG, GPIO_INT_EN1, GPIO_INT_EN2, GPIO_INT_EN3, KP_GPIO1, KP_GPIO2}

\* content of a caller's buffer slot the driver has not written
Stale == 255
\* values the caller's count variable may hold before its first call
PreCounts == {0, 200}
\* values of bits 6:4 of KEY_LCK_EC (K_LCK_EN, LCK2, LCK1): unlocked, locked
LockBits == {0, 112}

VARIABLES
    pc,          \* position of the driver: "idle" or the next transaction
    op,          \* the public operation running, or the last one that ran
    step,        \* index of the next write in the operation's write sequence
    ret,         \* return value of the last finished call
    trace,       \* bus transactions issued by the current / last call
    intStatus,   \* local of TCA8418_ReadKeyEvents
    eventCount,  \* local of TCA8418_ReadKeyEvents
    i,           \* loop index of TCA8418_ReadKeyEvents
    keyEvents,   \* caller's buffer
    numEvents,   \* caller's count
    reg,         \* chip: configuration registers
    intStat,     \* chip: INT_STAT register
    lck,         \* chip: bits 6:4 of KEY_LCK_EC
    fifo,        \* chip: key-event FIFO, oldest first
    emitted,     \* chip: position in the cycle of key events being typed
    chipSteps,   \* chip-side changes since the running call was entered
    pre,         \* caller: configuration registers and count at the entry of the call
    decoded,     \* caller: key number and press flag of the events it processed
    delivered    \* caller: position in the cycle of the next event it expects

vars == <<pc, op, step, ret, trace, intStatus, eventCount, i, keyEvents,
          numEvents, reg, intStat, lck, fifo, emitted, chipSteps,
          pre, decoded, delivered>>

drv == <<pc, op, step, ret, trace, intStatus, eventCount, i, keyEvents, numEvents>>
chip == <<reg, intStat, lck, fifo, emitted>>
caller == <<pre, decoded, delivered>>

\* ------------------------------------------------------------ helpers
Bit(b, n) == (b \div (2 ^ n)) % 2

\* b & ~m for one-bit-at-a-time byte arithmetic (bits 0..7)
RECURSIVE ClearBits(_, _, _)
ClearBits(b, m, n) ==
    IF n > 7 THEN 0
    ELSE (IF Bit(b, n) = 1 /\ Bit(m, n) = 0 THEN 2 ^ n ELSE 0) + ClearBits(b, m, n + 1)

\* b | m
RECURSIVE OrBits(_, _, _)
OrBits(b, m, n) ==
    IF n > 7 THEN 0
    ELSE (IF Bit(b, n) = 1 \/ Bit(m, n) = 1 THEN 2 ^ n ELSE 0) + OrBits(b, m, n + 1)

\* the key event at position e (0-based) of the cycle: bit 7 set for a press,
\* bits 6:0 the key number
EventByte(e) == IF e % 2 = 0 THEN 128 + (e \div 2) + 1 ELSE (e \div 2) + 1

\* one bus transaction as recorded in the trace
Txn(kind, r, v, s) == [k |-> kind, reg |-> r, val |-> v, st |-> s]

\* ------------------------------------------------- register access layer
\* value a successful single-byte read of register r returns
ReadValue(r) ==
    IF r = INT_STAT THEN intStat
    ELSE IF r = KEY_LCK_EC THEN lck + Len(fifo)
    ELSE IF r = KEY_EVENT_A THEN (IF fifo = << >> THEN 0 ELSE Head(fifo))
    ELSE reg[r]

\* TCA8418_ReadRegister: effect of a read of register r with status s on the chip
ChipAfterRead(r, s) ==
    /\ fifo' = IF s = HAL_OK /\ r = KEY_EVENT_A /\ fifo # << >> THEN Tail(fifo) ELSE fifo
    /\ UNCHANGED <<reg, intStat, lck, emitted, chipSteps>>

\* TCA8418_WriteRegister: effect of a write of v to register r with status s
ChipAfterWrite(r, v, s) ==
    /\ intStat' = IF s = HAL_OK /\ r = INT_STAT THEN ClearBits(intStat, v, 0) ELSE intStat
    /\ reg' = IF s = HAL_OK /\ r \in CfgRegs THEN [reg EXCEPT ![r] = v] ELSE reg
    /\ UNCHANGED <<lck, fifo, emitted, chipSteps>>

\* ------------------------------------------------------ write sequences
\* TCA8418_KPConfig without the write of GPIO_INT_EN3
TCA8418_KPConfig_Seq_NoEn3 ==
    << <<KP_GPIO1, 1>>, <<KP_GPIO2, 127>>, <<GPIO_INT_EN1, 1>>,
       <<GPIO_INT_EN2, 127>> >>

TCA8418_KPConfig_Seq ==
    << <<KP_GPIO1, 1>>, <<KP_GPIO2, 127>>, <<GPIO_INT_EN1, 1>>,
       <<GPIO_INT_EN2, 127>>, <<GPIO_INT_EN3, 0>> >>

TCA8418_EnableInterrupt_Seq == << <<CFG, 1>> >>

\* TCA8418_LockKeypad with its two writes in the other order
TCA8418_LockKeypad_Seq_Swapped == << <<GPIO_INT_EN2, 127>>, <<KP_GPIO2, 1>> >>

TCA8418_LockKeypad_Seq == << <<KP_GPIO2, 1>>, <<GPIO_INT_EN2, 127>> >>

\* TCA8418_UnlockKeypad re-enabling column 0 only
TCA8418_UnlockKeypad_Seq_Col0 == << <<KP_GPIO2, 1>>, <<GPIO_INT_EN2, 127>> >>

\* TCA8418_UnlockKeypad writing the row interrupt-enable register
TCA8418_UnlockKeypad_Seq_RowEn == << <<KP_GPIO2, 127>>, <<GPIO_INT_EN1, 127>> >>

TCA8418_UnlockKeypad_Seq == << <<KP_GPIO2, 127>>, <<GPIO_INT_EN2, 127>> >>

\* a driver that skips the rest of a call once the chip is in locked mode
Returns_WhenLocked(n, len, s) == s # HAL_OK \/ n = len \/ reg[KP_GPIO2] = 1

\* a write sequence that ignores the status of its writes
Returns_IgnoreStatus(n, len, s) == n = len

\* if(status != HAL_OK) return status;  after the n-th write of a sequence
\* of length len: TRUE when the function returns at this point
Returns(n, len, s) == s # HAL_OK \/ n = len

\* ------------------------------------------------------------- Init
Init ==
    /\ pc = "idle"
    /\ op = "none"
    /\ step = 0
    /\ ret = NoRet
    /\ trace = << >>
    /\ intStatus = 0
    /\ eventCount = 0
    /\ i = 0
    /\ keyEvents = [n \in 0 .. (BufCap - 1) |-> Stale]
    /\ numEvents = 0
    /\ reg = [r \in CfgRegs |-> 0]
    /\ intStat = 0
    /\ lck = 0
    /\ fifo = << >>
    /\ emitted = 0
    /\ chipSteps = 0
    /\ pre = [reg |-> reg, num |-> 0]
    /\ decoded = << >>
    /\ delivered = 0

\* entry of a public operation
Enter(o, p) ==
    /\ pc = "idle"
    /\ pc' = p
    /\ op' = o
    /\ step' = 1
    /\ UNCHANGED <<ret, trace, intStatus, eventCount, i>>
    /\ UNCHANGED <<chip, chipSteps>>

\* the caller's view of the chip and of its count when it calls
Snapshot == pre' = [reg |-> reg, num |-> numEvents']

\* the call is over and the caller has taken its result: the locals of the
\* call, its result and its buffer are gone
Leave ==
    /\ pc = "done"
    /\ pc' = "idle"
    /\ op' = "none"
    /\ step' = 0
    /\ ret' = NoRet
    /\ trace' = << >>
    /\ intStatus' = 0
    /\ eventCount' = 0
    /\ i' = 0
    /\ keyEvents' = [n \in 0 .. (BufCap - 1) |-> Stale]
    /\ numEvents' = 0
    /\ chipSteps' = 0
    /\ pre' = [reg |-> reg, num |-> 0]
    /\ UNCHANGED chip

\* the caller does nothing with the result
Return == Leave /\ UNCHANGED <<decoded, delivered>>

\* one write of a write sequence seq, at pc label p; the function returns
\* after a failure or after the last write, else goes on (to label q when
\* the sequence is finished and the caller has more to do)
WriteStep(p, seq, more, q) ==
    /\ pc = p
    /\ \E s \in HalStatus :
         /\ trace' = Append(trace, Txn("W", seq[step][1], seq[step][2], s))
         /\ ChipAfterWrite(seq[step][1], seq[step][2], s)
         /\ IF Returns(step, Len(seq), s) /\ (s # HAL_OK \/ ~more)
              THEN pc' = "done" /\ ret' = s /\ step' = step
              ELSE IF step = Len(seq)
                     THEN pc' = q /\ ret' = ret /\ step' = 1
                     ELSE pc' = p /\ ret' = ret /\ step' = step + 1
    /\ UNCHANGED <<op, intStatus, eventCount, i, keyEvents, numEvents>>
    /\ UNCHANGED caller

\* ------------------------------------------------------ TCA8418_Init
Call_Init ==
    /\ Enter("Init", "kpconfig")
    /\ UNCHANGED <<keyEvents, numEvents>>
    /\ Snapshot
    /\ UNCHANGED <<decoded, delivered>>

TCA8418_KPConfig == WriteStep("kpconfig", TCA8418_KPConfig_Seq, TRUE, "enableint")

TCA8418_EnableInterrupt == WriteStep("enableint", TCA8418_EnableInterrupt_Seq, FALSE, "done")

\* ------------------------------------------------ TCA8418_LockKeypad
Call_LockKeypad ==
    /\ Enter("Lock", "lock")
    /\ UNCHANGED <<keyEvents, numEvents>>
    /\ Snapshot
    /\ UNCHANGED <<decoded, delivered>>

TCA8418_LockKeypad == WriteStep("lock", TCA8418_LockKeypad_Seq, FALSE, "done")

\* ---------------------------------------------- TCA8418_UnlockKeypad
Call_UnlockKeypad ==
    /\ Enter("Unlock", "unlock")
    /\ UNCHANGED <<keyEvents, numEvents>>
    /\ Snapshot
    /\ UNCHANGED <<decoded, delivered>>

TCA8418_UnlockKeypad == WriteStep("unlock", TCA8418_UnlockKeypad_Seq, FALSE, "done")

\* --------------------------------------------- TCA8418_ReadKeyEvents
Call_ReadKeyEvents ==
    /\ Enter("Read", "int_stat")
    /\ numEvents' \in PreCounts
    /\ UNCHANGED keyEvents
    /\ Snapshot
    /\ UNCHANGED <<decoded, delivered>>

\* a read that is carried on after HAL_TIMEOUT
ReadAborts_NotOnTimeout(s) == s = HAL_ERROR \/ s = HAL_BUSY

\* a read whose failure never ends the call
ReadAborts_Never(s) == FALSE

\* a read that is carried on after HAL_BUSY
ReadAborts_NotOnBusy(s) == s = HAL_ERROR \/ s = HAL_TIMEOUT

\* if(status != HAL_OK) return status;  after a register read
ReadAborts(s) == s # HAL_OK

\* the no-event test on the whole status byte instead of bit 0
NoKeyEvent_WholeByte(st) == st = 0

\* if(!(intStatus & 0x01))
NoKeyEvent(st) == Bit(st, 0) = 0

\* the event counter used without the limit
Clamp_None(v) == v

\* if(eventCount > 10) eventCount = 10;
Clamp(v) == IF v > 10 THEN 10 ELSE v

\* the loop ending one iteration early
LoopRuns_OneShort(n, ec) == n + 1 < ec

\* for(i = 0; i < eventCount; i++): TRUE while the loop body runs again
LoopRuns(n, ec) == n < ec

\* status = TCA8418_ReadRegister(INT_STAT, &intStatus, 1); and the no-event return
ReadIntStat ==
    /\ pc = "int_stat"
    /\ \E s \in HalStatus :
         LET v == IF s = HAL_OK THEN ReadValue(INT_STAT) ELSE intStatus IN
         /\ trace' = Append(trace, Txn("R", INT_STAT, v, s))
         /\ ChipAfterRead(INT_STAT, s)
         /\ intStatus' = v
         /\ IF ReadAborts(s)
              THEN pc' = "done" /\ ret' = s /\ numEvents' = numEvents
              ELSE IF NoKeyEvent(v)
                     THEN pc' = "done" /\ ret' = HAL_OK /\ numEvents' = 0
                     ELSE pc' = "key_lck_ec" /\ ret' = ret /\ numEvents' = numEvents
    /\ UNCHANGED <<op, step, eventCount, i, keyEvents>>
    /\ UNCHANGED caller

\* status = TCA8418_ReadRegister(KEY_LCK_EC, &eventCount, 1); and the clamp
ReadEventCount ==
    /\ pc = "key_lck_ec"
    /\ \E s \in HalStatus :
         LET v == IF s = HAL_OK THEN ReadValue(KEY_LCK_EC) ELSE eventCount IN
         /\ trace' = Append(trace, Txn("R", KEY_LCK_EC, v, s))
         /\ ChipAfterRead(KEY_LCK_EC, s)
         /\ IF ReadAborts(s)
              THEN pc' = "done" /\ ret' = s /\ eventCount' = v
              ELSE /\ eventCount' = Clamp(v)
                   /\ pc' = IF LoopRuns(0, Clamp(v)) THEN "fifo" ELSE "clear"
                   /\ ret' = ret
    /\ UNCHANGED <<op, step, intStatus, i, keyEvents, numEvents>>
    /\ UNCHANGED caller

\* one iteration of the FIFO loop: read KEY_EVENT_A into keyEvents[i]
ReadFifo ==
    /\ pc = "fifo"
    /\ \E s \in HalStatus :
         LET v == IF s = HAL_OK THEN ReadValue(KEY_EVENT_A) ELSE keyEvents[i] IN
         /\ trace' = Append(trace, Txn("R", KEY_EVENT_A, v, s))
         /\ ChipAfterRead(KEY_EVENT_A, s)
         /\ keyEvents' = [keyEvents EXCEPT ![i] = v]
         /\ IF ReadAborts(s)
              THEN pc' = "done" /\ ret' = s /\ i' = i
              ELSE /\ i' = i + 1
                   /\ pc' = IF LoopRuns(i + 1, eventCount) THEN "fifo" ELSE "clear"
                   /\ ret' = ret
    /\ UNCHANGED <<op, step, intStatus, eventCount, numEvents>>
    /\ UNCHANGED caller

\* a drain that writes back the status byte it read
ClearInterrupt_WriteBack ==
    /\ pc = "clear"
    /\ numEvents' = eventCount
    /\ intStatus' = intStatus
    /\ \E s \in HalStatus :
         /\ trace' = Append(trace, Txn("W", INT_STAT, intStatus, s))
         /\ ChipAfterWrite(INT_STAT, intStatus, s)
         /\ pc' = "done"
         /\ ret' = s
    /\ UNCHANGED <<op, step, eventCount, i, keyEvents>>
    /\ UNCHANGED caller

\* a drain that sets the output count only when the clear-write succeeded
ClearInterrupt_CountOnSuccess ==
    /\ pc = "clear"
    /\ intStatus' = 1
    /\ \E s \in HalStatus :
         /\ trace' = Append(trace, Txn("W", INT_STAT, 1, s))
         /\ ChipAfterWrite(INT_STAT, 1, s)
         /\ numEvents' = IF s = HAL_OK THEN eventCount ELSE numEvents
         /\ pc' = "done"
         /\ ret' = s
    /\ UNCHANGED <<op, step, eventCount, i, keyEvents>>
    /\ UNCHANGED caller

\* *numEvents = eventCount; intStatus = 0x01; write INT_STAT; return
ClearInterrupt ==
    /\ pc = "clear"
    /\ numEvents' = eventCount
    /\ intStatus' = 1
    /\ \E s \in HalStatus :
         /\ trace' = Append(trace, Txn("W", INT_STAT, 1, s))
         /\ ChipAfterWrite(INT_STAT, 1, s)
         /\ pc' = "done"
         /\ ret' = s
    /\ UNCHANGED <<op, step, eventCount, i, keyEvents>>
    /\ UNCHANGED caller

\* ------------------------------------------------------------ the chip
\* a chip-side change is possible now
ChipMayStep ==
    /\ pc # "done"
    /\ pc = "idle" \/ chipSteps < MaxChipSteps
    /\ chipSteps' = IF pc = "idle" THEN 0 ELSE chipSteps + 1

\* the chip scans the keypad and reports key events once a row and a column
\* are in keypad mode and the key-event interrupt is enabled
KeypadEnabled ==
    /\ Bit(reg[KP_GPIO1], 0) = 1
    /\ reg[KP_GPIO2] # 0
    /\ Bit(reg[CFG], 0) = 1

\* a key is pressed or released: the event enters the FIFO, KE_INT is set
ChipKeyEvent ==
    /\ ChipMayStep
    /\ KeypadEnabled
    /\ Len(fifo) < FifoDepth
    /\ fifo' = Append(fifo, EventByte(emitted))
    /\ emitted' = (emitted + 1) % (2 * NumKeys)
    /\ intStat' = OrBits(intStat, 1, 0)
    /\ UNCHANGED <<reg, lck>>
    /\ UNCHANGED drv
    /\ UNCHANGED caller

\* the keypad-lock state bits of KEY_LCK_EC change
ChipLockChange ==
    /\ ChipMayStep
    /\ \E l \in LockBits \ {lck} : lck' = l
    /\ UNCHANGED <<reg, intStat, fifo, emitted>>
    /\ UNCHANGED drv
    /\ UNCHANGED caller

\* another interrupt source (GPI_INT, bit 1 of INT_STAT) fires
ChipOtherInt ==
    /\ ChipMayStep
    /\ Bit(intStat, 1) = 0
    /\ intStat' = OrBits(intStat, 2, 0)
    /\ UNCHANGED <<reg, lck, fifo, emitted>>
    /\ UNCHANGED drv
    /\ UNCHANGED caller

Next ==
    \/ Return
    \/ Call_Init
    \/ TCA8418_KPConfig
    \/ TCA8418_EnableInterrupt
    \/ Call_LockKeypad
    \/ TCA8418_LockKeypad
    \/ Call_UnlockKeypad
    \/ TCA8418_UnlockKeypad
    \/ Call_ReadKeyEvents
    \/ ReadIntStat
    \/ ReadEventCount
    \/ ReadFifo
    \/ ClearInterrupt
    \/ ChipKeyEvent
    \/ ChipLockChange
    \/ ChipOtherInt

Spec == Init /\ [][Next]_vars

\* ===================================================== properties
\* the call of operation o has returned and its result is visible
Returned(o) == pc = "done" /\ op = o

\* every transaction of the trace t succeeded
AllOK(t) == \A n \in 1 .. Len(t) : t[n].st = HAL_OK

\* some transaction of the trace t failed
SomeFailed(t) == \E n \in 1 .. Len(t) : t[n].st # HAL_OK

\* positions of the trace t that are transactions of kind k on register r
Positions(t, k, r) == {n \in 1 .. Len(t) : t[n].k = k /\ t[n].reg = r}

\* the trace t issues the first Len(t) writes of the write sequence seq
WritesPrefixOf(t, seq) ==
    /\ Len(t) <= Len(seq)
    /\ \A n \in 1 .. Len(t) :
         t[n].k = "W" /\ t[n].reg = seq[n][1] /\ t[n].val = seq[n][2]

\* a failed transaction is the last one of the call, and the call returns
\* its status
AbortsOnFailure ==
    /\ \A n \in 1 .. Len(trace) :
         trace[n].st # HAL_OK => n = Len(trace) /\ pc = "done" /\ ret = trace[n].st
    /\ pc = "done" /\ ret = HAL_OK => AllOK(trace)

\* ------------------------------------------------------------- C1
\* C1 as stated: a call of TCA8418_Init in which every transaction succeeds
\* issues exactly four register writes (KP_GPIO1 = 0x01, KP_GPIO2 = 0x7F, a
\* GPIO interrupt-enable register, CFG = 0x01 last), no reads, and returns
\* HAL_OK.
C1_FourWrites ==
    Returned("Init") /\ AllOK(trace) =>
        /\ Len(trace) = 4
        /\ \A n \in 1 .. Len(trace) : trace[n].k = "W"
        /\ trace[1].reg = KP_GPIO1 /\ trace[1].val = 1
        /\ trace[2].reg = KP_GPIO2 /\ trace[2].val = 127
        /\ trace[3].reg \in {GPIO_INT_EN1, GPIO_INT_EN2, GPIO_INT_EN3}
        /\ trace[4].reg = CFG /\ trace[4].val = 1
        /\ ret = HAL_OK

\* C1 amended: a call of TCA8418_Init in which every transaction succeeds
\* issues exactly six register writes, KP_GPIO1 = 0x01, KP_GPIO2 = 0x7F,
\* GPIO_INT_EN1 = 0x01, GPIO_INT_EN2 = 0x7F, GPIO_INT_EN3 = 0x00 and
\* CFG = 0x01 last, issues no reads, and returns HAL_OK.
C1_SixWrites ==
    Returned("Init") /\ AllOK(trace) =>
        /\ trace = << Txn("W", KP_GPIO1, 1, HAL_OK), Txn("W", KP_GPIO2, 127, HAL_OK),
                      Txn("W", GPIO_INT_EN1, 1, HAL_OK), Txn("W", GPIO_INT_EN2, 127, HAL_OK),
                      Txn("W", GPIO_INT_EN3, 0, HAL_OK), Txn("W", CFG, 1, HAL_OK) >>
        /\ ret = HAL_OK

C1_Witness == Returned("Init") /\ AllOK(trace) /\ Len(trace) = 6 /\ ret = HAL_OK

\* ------------------------------------------------------------- C2
\* C2: in TCA8418_Init, when the k-th write fails with status s, no later
\* write is issued (CFG is written only as the sixth write, after five
\* successful configuration writes), no other write is issued either, and
\* the call returns exactly s.
C2_InitAbortsOnFailure ==
    op = "Init" =>
        /\ WritesPrefixOf(trace, TCA8418_KPConfig_Seq \o TCA8418_EnableInterrupt_Seq)
        /\ AbortsOnFailure
        /\ \A n \in Positions(trace, "W", CFG) : n = 6 /\ AllOK(SubSeq(trace, 1, 5))

C2_Witness ==
    /\ Returned("Init")
    /\ Len(trace) = 3
    /\ trace[3].st = HAL_BUSY
    /\ ret = HAL_BUSY
    /\ reg[KP_GPIO2] = 127
    /\ reg[CFG] = 0

\* ------------------------------------------------------------- C3
\* C3: when TCA8418_ReadKeyEvents reads an INT_STAT value with bit 0 clear,
\* it returns HAL_OK with numEvents = 0 and its whole bus activity is the one
\* read of INT_STAT; a call in which a transaction failed never returns
\* HAL_OK, so the outcome differs from every failure outcome.
C3_NoEventPath ==
    op = "Read" =>
        /\ (Len(trace) >= 1 /\ trace[1].st = HAL_OK /\ Bit(trace[1].val, 0) = 0) =>
              /\ pc = "done"
              /\ ret = HAL_OK
              /\ numEvents = 0
              /\ trace = << Txn("R", INT_STAT, trace[1].val, HAL_OK) >>
        /\ (pc = "done" /\ SomeFailed(trace)) => ret # HAL_OK

C3_Witness ==
    /\ Returned("Read")
    /\ Len(trace) = 1
    /\ trace[1].st = HAL_OK
    /\ trace[1].val = 2
    /\ ret = HAL_OK
    /\ numEvents = 0

\* ------------------------------------------------------------- C4
\* C4: when bit 0 of INT_STAT is set, KEY_LCK_EC reads n with 0 <= n <= 10 and
\* every transaction succeeds, TCA8418_ReadKeyEvents returns HAL_OK with
\* numEvents = n and its trace is: read INT_STAT, read KEY_LCK_EC, n reads of
\* KEY_EVENT_A, one write of 0x01 to INT_STAT.
C4_DrainTrace ==
    (/\ Returned("Read")
     /\ AllOK(trace)
     /\ Len(trace) >= 2
     /\ Bit(trace[1].val, 0) = 1
     /\ trace[2].val <= 10) =>
        LET n == trace[2].val IN
        /\ ret = HAL_OK
        /\ numEvents = n
        /\ Len(trace) = n + 3
        /\ trace[1].k = "R" /\ trace[1].reg = INT_STAT
        /\ trace[2].k = "R" /\ trace[2].reg = KEY_LCK_EC
        /\ \A j \in 3 .. (n + 2) : trace[j].k = "R" /\ trace[j].reg = KEY_EVENT_A
        /\ trace[n + 3] = Txn("W", INT_STAT, 1, HAL_OK)

C4_Witness ==
    /\ Returned("Read")
    /\ AllOK(trace)
    /\ Len(trace) = 13
    /\ trace[2].val = 10
    /\ numEvents = 10
    /\ ret = HAL_OK

\* ------------------------------------------------------------- C5
\* C5 as stated: for a KEY_LCK_EC value above 10 a successful call sets
\* numEvents to 10 and performs exactly 10 FIFO reads; after every call
\* numEvents is at most 10, and no buffer slot with index >= 10 is written.
C5_CountNeverAbove10 ==
    /\ (Returned("Read") /\ ret = HAL_OK /\ Len(trace) >= 2 /\ trace[2].val > 10) =>
          numEvents = 10 /\ Cardinality(Positions(trace, "R", KEY_EVENT_A)) = 10
    /\ Returned("Read") => numEvents <= 10
    /\ pc = "fifo" => i < BufCap

\* C5 amended: for a KEY_LCK_EC value above 10 a successful call sets
\* numEvents to 10 and performs exactly 10 FIFO reads; after every call that
\* returns HAL_OK, and after every call that reached the clear-write,
\* numEvents is at most 10 (a call that fails earlier leaves the caller's
\* own value in place); no buffer slot with index >= 10 is written and no
\* call issues more than 10 FIFO reads.
C5_ClampedCount ==
    /\ (Returned("Read") /\ ret = HAL_OK /\ Len(trace) >= 2 /\ trace[2].val > 10) =>
          numEvents = 10 /\ Cardinality(Positions(trace, "R", KEY_EVENT_A)) = 10
    /\ (Returned("Read") /\ (ret = HAL_OK \/ Positions(trace, "W", INT_STAT) # {})) =>
          numEvents <= 10
    /\ pc = "fifo" => i < BufCap
    /\ op = "Read" => Cardinality(Positions(trace, "R", KEY_EVENT_A)) <= BufCap

C5_Witness ==
    /\ Returned("Read")
    /\ ret = HAL_OK
    /\ Len(trace) = 13
    /\ trace[2].val > 10
    /\ numEvents = 10

\* ------------------------------------------------------------- C6
\* C6 as stated: the number of events drained depends only on bits 3:0 of
\* KEY_LCK_EC: for the value the call read and every value that agrees with
\* it on bits 3:0 and differs only in the lock bits 6:4, the code computes
\* the same number of FIFO reads and the same numEvents.
C6_CounterFieldOnly ==
    (op = "Read" /\ Len(trace) >= 2 /\ trace[2].st = HAL_OK) =>
        \A l \in 0 .. 7 :
            LET other == (trace[2].val % 16) + 16 * l IN
            /\ Clamp(other) = eventCount
            /\ (pc = "done" /\ ret = HAL_OK) =>
                  /\ Cardinality(Positions(trace, "R", KEY_EVENT_A)) = Clamp(other)
                  /\ numEvents = Clamp(other)

\* ------------------------------------------------------------- C7
\* C7: in every call of TCA8418_ReadKeyEvents the write of 0x01 to INT_STAT
\* is issued at most once, as the last transaction, after all eventCount
\* reads of KEY_EVENT_A of the call succeeded; when a read of the call
\* failed the write is not issued.
C7_ClearAfterDrain ==
    op = "Read" =>
        /\ Cardinality(Positions(trace, "W", INT_STAT)) <= 1
        /\ \A n \in Positions(trace, "W", INT_STAT) :
             /\ n = Len(trace)
             /\ pc = "done"
             /\ \A m \in 1 .. (n - 1) : trace[m].k = "R" /\ trace[m].st = HAL_OK
             /\ Positions(trace, "R", KEY_EVENT_A) = 3 .. (n - 1)
             /\ Cardinality(Positions(trace, "R", KEY_EVENT_A)) = eventCount
        /\ (\E m \in 1 .. Len(trace) : trace[m].k = "R" /\ trace[m].st # HAL_OK) =>
             Positions(trace, "W", INT_STAT) = {}

C7_Witness ==
    /\ Returned("Read")
    /\ Len(trace) = 5
    /\ trace[5] = Txn("W", INT_STAT, 1, HAL_OK)
    /\ Cardinality(Positions(trace, "R", KEY_EVENT_A)) = 2

\* ------------------------------------------------------------- C8
\* C8 as stated: whenever TCA8418_ReadKeyEvents has cleared KE_INT, every
\* event that entered the FIFO before that write was copied into the
\* caller's buffer by the call, so none is left in the FIFO at the write.
C8_NoEventAckedUnread ==
    (/\ Returned("Read")
     /\ Len(trace) >= 1
     /\ trace[Len(trace)] = Txn("W", INT_STAT, 1, HAL_OK)) => fifo = << >>

\* ------------------------------------------------------------- C9
\* C9: a transaction of TCA8418_ReadKeyEvents that fails with status s is
\* the last transaction of the call (nothing is issued after it, it is not
\* repeated) and the call returns exactly s, never HAL_OK.
C9_DrainAbortsOnFailure ==
    op = "Read" =>
        /\ AbortsOnFailure
        /\ (pc = "done" /\ SomeFailed(trace)) => ret = trace[Len(trace)].st /\ ret # HAL_OK

C9_Witness ==
    /\ Returned("Read")
    /\ Len(trace) = 4
    /\ trace[4].k = "R"
    /\ trace[4].reg = KEY_EVENT_A
    /\ trace[4].st = HAL_TIMEOUT
    /\ ret = HAL_TIMEOUT

\* ------------------------------------------------------------ C10
\* the write sequence of the running lock or unlock operation
LockSeqOf(o) == IF o = "Lock" THEN TCA8418_LockKeypad_Seq ELSE TCA8418_UnlockKeypad_Seq

\* C10: TCA8418_LockKeypad and TCA8418_UnlockKeypad each write KP_GPIO2 and
\* then GPIO_INT_EN2; a write that fails with status s ends the call with
\* result s, the remaining write is not issued and nothing is written back:
\* the step of a failing write leaves every register as it was, so after a
\* failing second write KP_GPIO2 holds its new value and GPIO_INT_EN2 its
\* previous one.
C10_State ==
    op \in {"Lock", "Unlock"} =>
        /\ WritesPrefixOf(trace, LockSeqOf(op))
        /\ LockSeqOf(op)[1][1] = KP_GPIO2
        /\ LockSeqOf(op)[2][1] = GPIO_INT_EN2
        /\ AbortsOnFailure
        /\ (Len(trace) = 2 /\ trace[2].st # HAL_OK) => reg[KP_GPIO2] = LockSeqOf(op)[1][2]

C10_Step ==
    (/\ pc \in {"lock", "unlock"}
     /\ pc' = "done"
     /\ ret' # HAL_OK) =>
        /\ reg' = reg
        /\ Len(trace') = Len(trace) + 1

C10_LockUnlockAbort == [] C10_State /\ [][C10_Step]_vars

C10_Witness ==
    /\ Returned("Lock")
    /\ Len(trace) = 2
    /\ trace[2].st = HAL_ERROR
    /\ ret = HAL_ERROR
    /\ reg[KP_GPIO2] = 1
    /\ reg[GPIO_INT_EN2] = 0
\* ------------------------------------------------------------ C11
\* the configuration registers right after a successful TCA8418_Init
AfterInit ==
    (CFG :> 1) @@ (KP_GPIO1 :> 1) @@ (KP_GPIO2 :> 127) @@
    (GPIO_INT_EN1 :> 1) @@ (GPIO_INT_EN2 :> 127) @@ (GPIO_INT_EN3 :> 0)

\* C11: once TCA8418_Init has succeeded (CFG is written last, so CFG = 0x01
\* says so), every successful TCA8418_UnlockKeypad, whatever lock and unlock
\* calls came before it, leaves KP_GPIO2 = 0x7F and GPIO_INT_EN2 = 0x7F and
\* every configuration register at its value right after TCA8418_Init.
C11_UnlockRestores ==
    (Returned("Unlock") /\ ret = HAL_OK /\ pre.reg[CFG] = 1) =>
        /\ reg[KP_GPIO2] = 127
        /\ reg[GPIO_INT_EN2] = 127
        /\ reg = AfterInit

\* an unlock that succeeded on an initialised chip that was locked
C11_Witness ==
    /\ Returned("Unlock")
    /\ ret = HAL_OK
    /\ pre.reg[CFG] = 1
    /\ pre.reg[KP_GPIO2] = 1
    /\ reg = AfterInit

\* ------------------------------------------------------------ C12
\* C12 as stated: after a successful TCA8418_LockKeypad KP_GPIO2 has only
\* bit 0 set and bits 1..7 of GPIO_INT_EN2 are all 0 (a set bit enables the
\* interrupt of its column).
C12_LockDisablesColumnInts ==
    (Returned("Lock") /\ ret = HAL_OK) =>
        /\ reg[KP_GPIO2] = 1
        /\ \A b \in 1 .. 7 : Bit(reg[GPIO_INT_EN2], b) = 0

\* ------------------------------------------------------------ C13
\* C13: TCA8418_LockKeypad and TCA8418_UnlockKeypad issue writes only, to
\* KP_GPIO2 and GPIO_INT_EN2 only; whether they succeed or fail, KP_GPIO1,
\* GPIO_INT_EN1, GPIO_INT_EN3 and CFG hold the values they had when the call
\* was entered, and no step of the two operations changes INT_STAT, the lock
\* bits or the FIFO.
C13_State ==
    op \in {"Lock", "Unlock"} =>
        /\ \A n \in 1 .. Len(trace) :
             trace[n].k = "W" /\ trace[n].reg \in {KP_GPIO2, GPIO_INT_EN2}
        /\ \A r \in CfgRegs \ {KP_GPIO2, GPIO_INT_EN2} : reg[r] = pre.reg[r]

C13_Step ==
    (pc \in {"lock", "unlock"} /\ trace' # trace) =>
        /\ intStat' = intStat
        /\ fifo' = fifo
        /\ lck' = lck
        /\ emitted' = emitted
        /\ \A r \in CfgRegs \ {KP_GPIO2, GPIO_INT_EN2} : reg'[r] = reg[r]

C13_LockUnlockFrame == [] C13_State /\ [][C13_Step]_vars

\* an unlock that failed half way on an initialised chip with events pending
C13_Witness ==
    /\ Returned("Unlock")
    /\ Len(trace) = 2
    /\ trace[2].st = HAL_BUSY
    /\ reg[CFG] = 1
    /\ Len(fifo) = 2
    /\ intStat = 3
\* ============================================ the caller's event loop
\* b & m
RECURSIVE AndBits(_, _, _)
AndBits(b, m, n) ==
    IF n > 7 THEN 0
    ELSE (IF Bit(b, n) = 1 /\ Bit(m, n) = 1 THEN 2 ^ n ELSE 0) + AndBits(b, m, n + 1)

\* the key number taken from bits 5:0 only
KeyNumber_Mask3F(b) == AndBits(b, 63, 0)

\* uint8_t keyNumber = keyEvents[i] & 0x7F;
KeyNumber(b) == AndBits(b, 127, 0)

\* uint8_t isPress = (keyEvents[i] & 0x80) ? 1 : 0;
IsPress(b) == IF AndBits(b, 128, 0) # 0 THEN 1 ELSE 0

\* if(status == HAL_OK) for(i = 0; i < numEvents; i++) decode keyEvents[i]
ProcessEvents ==
    /\ pc = "done"
    /\ op = "Read"
    /\ ret = HAL_OK
    /\ numEvents > 0
    /\ decoded = << >>
    /\ decoded' = [j \in 1 .. numEvents |->
                     <<KeyNumber(keyEvents[j - 1]), IsPress(keyEvents[j - 1])>>]
    /\ UNCHANGED <<drv, chip, chipSteps, pre, delivered>>

\* the caller is through with the result of the call
ReturnProcessed ==
    /\ (op = "Read" /\ ret = HAL_OK /\ numEvents > 0) => decoded # << >>
    /\ Leave
    /\ decoded' = << >>
    /\ UNCHANGED delivered

\* the state after a successful TCA8418_Init, with the events f pending and
\* INT_STAT = st
ConfiguredIdle(f, st) ==
    /\ pc = "idle"
    /\ op = "none"
    /\ step = 0
    /\ ret = NoRet
    /\ trace = << >>
    /\ intStatus = 0
    /\ eventCount = 0
    /\ i = 0
    /\ keyEvents = [n \in 0 .. (BufCap - 1) |-> Stale]
    /\ numEvents = 0
    /\ reg = AfterInit
    /\ intStat = st
    /\ lck = 0
    /\ fifo = f
    /\ emitted = 0
    /\ chipSteps = 0
    /\ pre = [reg |-> reg, num |-> 0]
    /\ decoded = << >>
    /\ delivered = 0

\* a successful TCA8418_Init, then one key event with any event byte
InitDecode == \E b \in 0 .. 255 : ConfiguredIdle(<<b>>, 1)

NextDecode ==
    \/ Call_ReadKeyEvents
    \/ ReadIntStat
    \/ ReadEventCount
    \/ ReadFifo
    \/ ClearInterrupt
    \/ ProcessEvents
    \/ ReturnProcessed
    \/ ChipKeyEvent

SpecDecode == InitDecode /\ [][NextDecode]_vars

\* ------------------------------------------------------------ C14
\* C14: the caller's decoding of an event byte b gives key number b AND 0x7F
\* and press flag bit 7; for every byte 0..255 the chip may report the two
\* fields are disjoint and recombine to b (0x85 is key 5 pressed, 0x05 key 5
\* released), and TCA8418_ReadKeyEvents stores the byte at the head of the
\* FIFO in keyEvents[i] unmodified.
C14_State ==
    decoded # << >> =>
        /\ Len(decoded) = numEvents
        /\ \A j \in 1 .. Len(decoded) :
             LET b == keyEvents[j - 1]
                 kn == decoded[j][1]
                 pr == decoded[j][2]
             IN /\ kn \in 0 .. 127
                /\ pr \in {0, 1}
                /\ kn + 128 * pr = b
                /\ b = trace[j + 2].val
                /\ b = 133 => kn = 5 /\ pr = 1
                /\ b = 5 => kn = 5 /\ pr = 0

C14_Step ==
    (/\ pc = "fifo"
     /\ trace' # trace
     /\ trace'[Len(trace')].st = HAL_OK
     /\ fifo # << >>) =>
        /\ keyEvents'[i] = Head(fifo)
        /\ \A n \in (0 .. (BufCap - 1)) \ {i} : keyEvents'[n] = keyEvents[n]

C14_DecodeRoundTrip == [] C14_State /\ [][C14_Step]_vars

C14_Witness ==
    /\ decoded = << <<5, 1>> >>
    /\ keyEvents[0] = 133
    /\ numEvents = 1
\* ------------------------------------------------------------ C15
\* a bus transaction of the running call: the bus primitive returns
BusTransaction ==
    \/ TCA8418_KPConfig
    \/ TCA8418_EnableInterrupt
    \/ TCA8418_LockKeypad
    \/ TCA8418_UnlockKeypad
    \/ ReadIntStat
    \/ ReadEventCount
    \/ ReadFifo
    \/ ClearInterrupt

\* every bus primitive call returns
SpecFair == Spec /\ WF_vars(BusTransaction)

\* the transactions of the trace t of kind k
CountKind(t, k) == Cardinality({n \in 1 .. Len(t) : t[n].k = k})

\* C15 (transaction budget): TCA8418_Init issues at most its six writes,
\* each at most once, lock and unlock at most 2 writes, and
\* TCA8418_ReadKeyEvents at most 2 status reads, 10 FIFO reads and 1 write;
\* no transaction follows a failed one, so none is repeated.
C15_Budget ==
    /\ op = "Init" =>
          /\ CountKind(trace, "W") <= 6 /\ CountKind(trace, "R") = 0
          /\ \A r \in CfgRegs : Cardinality(Positions(trace, "W", r)) <= 1
    /\ op \in {"Lock", "Unlock"} =>
          CountKind(trace, "W") <= 2 /\ CountKind(trace, "R") = 0
    /\ op = "Read" =>
          /\ Cardinality(Positions(trace, "R", INT_STAT)) <= 1
          /\ Cardinality(Positions(trace, "R", KEY_LCK_EC)) <= 1
          /\ Cardinality(Positions(trace, "R", KEY_EVENT_A)) <= 10
          /\ CountKind(trace, "W") <= 1
          /\ Len(trace) <= 13
    /\ \A n \in 1 .. Len(trace) : trace[n].st # HAL_OK => n = Len(trace) /\ pc = "done"

\* C15: provided every bus primitive call returns, every call of a public
\* operation returns, within the transaction budget.
C15_Terminates == [] C15_Budget /\ [] (pc # "idle" => <> (pc = "done"))

\* a drain that used its whole budget
C15_Witness ==
    /\ Returned("Read")
    /\ Len(trace) = 13
    /\ Cardinality(Positions(trace, "R", KEY_EVENT_A)) = 10
    /\ CountKind(trace, "W") = 1
\* ------------------------------------------------------------ C16
\* length of the event cycle of the modelled keypad
StreamLen == 2 * NumKeys

\* bytes the call took from the head of a non-empty or empty FIFO
FifoReadsOK(t) == Cardinality({n \in 1 .. Len(t) :
                     t[n].k = "R" /\ t[n].reg = KEY_EVENT_A /\ t[n].st = HAL_OK})

\* the caller takes buffer and count of a successful drain as the next events
\* of the stream; what a failed drain took from the FIFO is given up
ReturnConsume ==
    /\ Leave
    /\ delivered' = IF op = "Read" /\ ret = HAL_OK
                      THEN (delivered + numEvents) % StreamLen
                      ELSE (delivered + FifoReadsOK(trace)) % StreamLen
    /\ UNCHANGED decoded

\* the chip right after a successful TCA8418_Init, nothing pending
InitConfigured == ConfiguredIdle(<< >>, 0)

\* serialized drains against a scanning keypad whose lock state may change
NextStream ==
    \/ Call_ReadKeyEvents
    \/ ReadIntStat
    \/ ReadEventCount
    \/ ReadFifo
    \/ ClearInterrupt
    \/ ReturnConsume
    \/ ChipKeyEvent
    \/ ChipLockChange

SpecStream == InitConfigured /\ [][NextStream]_vars

\* C16 (as claimed): every FIFO read of a drain targets KEY_EVENT_A, and the
\* buffers of successive successful drains, concatenated, are a prefix of the
\* chip's event stream: slot j of a successful drain holds the event that
\* follows the ones already delivered, none duplicated, reordered or skipped.
C16_StreamPrefix ==
    /\ op = "Read" =>
          \A n \in 3 .. Len(trace) :
              trace[n].k = "R" => trace[n].reg = KEY_EVENT_A
    /\ (Returned("Read") /\ ret = HAL_OK) =>
          \A j \in 0 .. (numEvents - 1) :
              keyEvents[j] = EventByte((delivered + j) % StreamLen)
\* ------------------------------------------------------------ C17
\* the register writes of operation o, in program order
WriteSeqOf(o) ==
    IF o = "Init" THEN TCA8418_KPConfig_Seq \o TCA8418_EnableInterrupt_Seq
    ELSE LockSeqOf(o)

\* what operation o does after the bus responses t of the call so far: the
\* next request, or the return (k = "ret") with its value
NextStepOf(o, t) ==
    IF t # << >> /\ t[Len(t)].st # HAL_OK
      THEN [k |-> "ret", reg |-> 0, val |-> t[Len(t)].st]
    ELSE IF o # "Read"
      THEN IF Len(t) = Len(WriteSeqOf(o))
             THEN [k |-> "ret", reg |-> 0, val |-> HAL_OK]
             ELSE [k |-> "W", reg |-> WriteSeqOf(o)[Len(t) + 1][1],
                   val |-> WriteSeqOf(o)[Len(t) + 1][2]]
    ELSE IF t = << >>
      THEN [k |-> "R", reg |-> INT_STAT, val |-> 0]
    ELSE IF Len(t) = 1
      THEN IF NoKeyEvent(t[1].val)
             THEN [k |-> "ret", reg |-> 0, val |-> HAL_OK]
             ELSE [k |-> "R", reg |-> KEY_LCK_EC, val |-> 0]
    ELSE IF Len(t) < 2 + Clamp(t[2].val)
      THEN [k |-> "R", reg |-> KEY_EVENT_A, val |-> 0]
    ELSE IF Len(t) = 2 + Clamp(t[2].val)
      THEN [k |-> "W", reg |-> INT_STAT, val |-> 1]
    ELSE [k |-> "ret", reg |-> 0, val |-> HAL_OK]

\* C17: the bus transactions a call issues and the value it returns are a
\* function of the operation and of the bus responses received during that
\* call alone: in every reachable state, whatever was called before and
\* whatever mode the chip is in, each request of the trace and the return
\* are the ones NextStepOf gives for the responses before them.
C17_NoHostState ==
    op # "none" =>
        /\ \A n \in 1 .. Len(trace) :
              LET e == NextStepOf(op, SubSeq(trace, 1, n - 1)) IN
              /\ e.k = trace[n].k
              /\ e.reg = trace[n].reg
              /\ e.k = "W" => e.val = trace[n].val
        /\ pc = "done" =>
              /\ NextStepOf(op, trace).k = "ret"
              /\ NextStepOf(op, trace).val = ret
        /\ pc \notin {"done", "idle"} => NextStepOf(op, trace).k # "ret"

\* TCA8418_LockKeypad on a chip that was never initialised and is locked
\* already: the same two writes
C17_Witness ==
    /\ Returned("Lock")
    /\ ret = HAL_OK
    /\ pre.reg[CFG] = 0
    /\ pre.reg[KP_GPIO2] = 1
    /\ WritesPrefixOf(trace, TCA8418_LockKeypad_Seq)
    /\ Len(trace) = 2
\* ------------------------------------------------------------ C18
\* C18 (as claimed, serialized invocations): every slot a successful drain
\* reports holds a genuine key event, the reported slots being distinct
\* consecutive events of the chip's stream.
C18_SerializedGenuine ==
    (Returned("Read") /\ ret = HAL_OK /\ numEvents > 0) =>
        \E e \in 0 .. (StreamLen - 1) :
            \A j \in 0 .. (numEvents - 1) :
                keyEvents[j] = EventByte((e + j) % StreamLen)
\* ------------------------------------------------------------ C19
\* the call ended with a failed register read
ReadFailed == trace # << >> /\ trace[Len(trace)].k = "R" /\ trace[Len(trace)].st # HAL_OK

\* the call issued its clear-write
ClearIssued == trace # << >> /\ trace[Len(trace)].k = "W"

\* C19: TCA8418_ReadKeyEvents writes *numEvents at two points only. Until the
\* clear-write the count holds its pre-call value unless the no-event path
\* set it to 0; after a failed status, counter or FIFO read it still holds the
\* pre-call value although the slots before the failing read were
\* overwritten; once the clear-write was issued, failed or not, the count is
\* the clamped counter and every slot below it was filled by a FIFO read.
C19_CountTwoPoints ==
    op = "Read" =>
        /\ pc \in {"int_stat", "key_lck_ec", "fifo", "clear"} => numEvents = pre.num
        /\ (pc = "done" /\ ReadFailed) =>
              /\ numEvents = pre.num
              /\ \A n \in 3 .. (Len(trace) - 1) : keyEvents[n - 3] = trace[n].val
        /\ (pc = "done" /\ ~ReadFailed /\ ~ClearIssued) =>
              /\ Len(trace) = 1 /\ numEvents = 0 /\ ret = HAL_OK
        /\ (pc = "done" /\ ClearIssued) =>
              /\ numEvents = Clamp(trace[2].val)
              /\ Len(trace) = numEvents + 3
              /\ \A j \in 0 .. (numEvents - 1) :
                    trace[j + 3].st = HAL_OK /\ keyEvents[j] = trace[j + 3].val
              /\ ret = trace[Len(trace)].st

\* the second FIFO read fails: slot 0 was overwritten, the count was not
C19_Witness ==
    /\ Returned("Read")
    /\ ReadFailed
    /\ Len(trace) = 4
    /\ pre.num = 200
    /\ numEvents = 200
    /\ keyEvents[0] = 129
    /\ ret = HAL_TIMEOUT

\* only the clear-write fails: count and buffer are complete, the call fails
C19_WitnessClearFails ==
    /\ Returned("Read")
    /\ ClearIssued
    /\ ret = HAL_ERROR
    /\ pre.num = 200
    /\ numEvents = 2
    /\ keyEvents[0] = 129
    /\ keyEvents[1] = 1
\* ------------------------------------------------------------ C20
\* the status byte st has an interrupt bit other than KE_INT set and KE_INT clear
OtherBitsOnly(st) == Bit(st, 0) = 0 /\ st # 0

\* C20, states: the only write TCA8418_ReadKeyEvents issues is 0x01 to
\* INT_STAT; when the status read returns other bits set and bit 0 clear the
\* call issues no write, INT_STAT and the caller's buffer are as before, and
\* the call returns HAL_OK with zero events.
C20_State ==
    op = "Read" =>
        /\ \A n \in 1 .. Len(trace) :
              trace[n].k = "W" => trace[n].reg = INT_STAT /\ trace[n].val = 1
        /\ (trace # << >> /\ trace[1].st = HAL_OK /\ OtherBitsOnly(trace[1].val)) =>
              /\ pc = "done"
              /\ Len(trace) = 1
              /\ ret = HAL_OK
              /\ numEvents = 0
              /\ intStat = trace[1].val
              /\ keyEvents = [n \in 0 .. (BufCap - 1) |-> Stale]

\* C20, steps: a bus transaction of the drain changes no configuration
\* register and no bit of INT_STAT other than bit 0.
C20_Step ==
    (op = "Read" /\ trace' # trace /\ pc # "done") =>
        /\ reg' = reg
        /\ lck' = lck
        /\ \A b \in 1 .. 7 : Bit(intStat', b) = Bit(intStat, b)

\* C20: TCA8418_ReadKeyEvents inspects and clears only the key-event bit.
C20_OnlyKeyEventBit == [] C20_State /\ [][C20_Step]_vars

\* a GPIO interrupt is pending and no key event: one read, no write
C20_Witness ==
    /\ Returned("Read")
    /\ Len(trace) = 1
    /\ trace[1].st = HAL_OK
    /\ trace[1].val = 2
    /\ intStat = 2
    /\ ret = HAL_OK
    /\ pre.num = 200
    /\ numEvents = 0

\* a key event and a GPIO interrupt were pending: the clear-write leaves the
\* GPIO interrupt bit set
C20_WitnessClear ==
    /\ Returned("Read")
    /\ ClearIssued
    /\ ret = HAL_OK
    /\ trace[1].val = 3
    /\ intStat = 2
====
